---- MODULE Spec2Model ----
(***************************************************************************)
(* A model of kmz-cleaner.py: the pipeline driver process_files (zip       *)
(* extraction, per-item extraction, parse_kml, create_clean_kml,           *)
(* repackage_kmz, log, scratch cleanup) over a small file system, and the  *)
(* synthesis / re-extraction of a cleaned KML document at token level.     *)
(*                                                                         *)
(* File names are sequences of segments (<<"a", ".kmz">> is a.kmz), texts  *)
(* are sequences of lexemes (word lexemes are separated by blanks).        *)
(***************************************************************************)
EXTENDS Naturals, Sequences, FiniteSets, TLC

VARIABLES
    pc,           \* position of process_files
    workdir,      \* SCRIPT_FOLDER: name -> file (the run's input)
    temp,         \* TEMP_FOLDER: top-level name -> file or directory
    temp_exists,  \* whether TEMP_FOLDER exists
    out,          \* OUTPUT_FOLDER: archive name -> sequence of entries
    log,          \* processed_kmz_log.txt: sequence of lines
    zips,         \* names of os.listdir(SCRIPT_FOLDER) not yet visited
    pending,      \* names of os.listdir(TEMP_FOLDER) not yet visited
    listing,      \* history: TEMP_FOLDER as os.listdir(TEMP_FOLDER) saw it
    kmz_file,     \* the loop variable of step 2
    parsed,       \* what parse_kml returned for kmz_file
    exc,          \* the exception that ended the run, if any
    handled,      \* history: the .kmz items step 2 began, in order
    completed,    \* history: the items whose output archive was written
    kpc,          \* position of the synthesis round trip
    rec,          \* the OverlayRecord given to create_clean_kml
    kml_content,  \* the text create_clean_kml wrote
    reparsed      \* what parse_kml returned for that text

pvars == <<pc, workdir, temp, temp_exists, out, log, zips, pending, listing,
           kmz_file, parsed, exc, handled, completed>>
kvars == <<kpc, rec, kml_content, reparsed>>
vars == <<pvars, kvars>>

---------------------------------------------------------------------------
(* Bounds *)

\* most top-level entries a zip of the working directory holds
MaxEntries == 2
\* most lexemes in a field of the record given to create_clean_kml
MaxLen == 3

---------------------------------------------------------------------------
(* Python values *)

\* Python's None, as a text no document text can equal
NoneVal == <<"#None">>

\* truthiness of a str-or-None value (the `not x` of line 183)
Falsy(v) == v = NoneVal \/ v = <<>>

\* str(v) inside an f-string: None is rendered as the word None
Fmt(v) == IF v = NoneVal THEN <<"None">> ELSE v

NoFiles == [x \in {} |-> x]

\* overwrite-merge of two directories (extractall into an existing directory)
Merge(f, g) == [x \in (DOMAIN f) \cup (DOMAIN g) |->
                   IF x \in DOMAIN g THEN g[x] ELSE f[x]]

Without(f, n) == [x \in (DOMAIN f) \ {n} |-> f[x]]

---------------------------------------------------------------------------
(* File names *)

\* str.lower on a file name: only the suffix segments carry upper case here
LowerSeg(s) == IF s = ".KMZ" THEN ".kmz" ELSE IF s = ".ZIP" THEN ".zip" ELSE s
lower(name) == [i \in 1..Len(name) |-> LowerSeg(name[i])]

endswith(name, suffix) == Len(name) > 0 /\ name[Len(name)] = suffix

\* str.replace(old, ""): every occurrence of the segment is removed
replace(name, old) == SelectSeq(name, LAMBDA s : s # old)

SCRIPT_FOLDER == <<"script_folder", "/">>
OUTPUT_FOLDER == SCRIPT_FOLDER \o <<"processed_kmz", "/">>
TEMP_FOLDER == SCRIPT_FOLDER \o <<"temp_extract", "/">>

\* line 166: the scratch subdirectory of an item
kmz_extract_folder(name) == replace(name, ".kmz")

\* line 195
output_kmz_path(name) == OUTPUT_FOLDER \o name

DocKml == <<"doc.kml">>
CleanedKml == <<"cleaned.kml">>
OverlayPng == <<"overlay.png">>

---------------------------------------------------------------------------
(* Element trees: a sequence of nodes in document order; node 1 is the     *)
(* root, parent = 0 for the root, text = the text before the first child   *)

Node(tag, parent, text) == [tag |-> tag, parent |-> parent, text |-> text]

RECURSIVE IsDescendant(_, _, _)
IsDescendant(tree, i, r) ==
    IF i = 0 THEN FALSE
    ELSE IF tree[i].parent = r THEN TRUE
    ELSE IsDescendant(tree, tree[i].parent, r)

Min(S) == CHOOSE x \in S : \A y \in S : x <= y

\* Element.find(".//tag"): the first descendant of r with that tag, 0 for None
FindDesc(tree, r, tag) ==
    LET hits == {i \in 1..Len(tree) : tree[i].tag = tag /\ IsDescendant(tree, i, r)}
    IN  IF hits = {} THEN 0 ELSE Min(hits)

\* Element.find("tag"): the first child of r with that tag, 0 for None
FindChild(tree, r, tag) ==
    LET hits == {i \in 1..Len(tree) : tree[i].tag = tag /\ tree[i].parent = r}
    IN  IF hits = {} THEN 0 ELSE Min(hits)

\* Element.find(".//Icon/href"): the first href child of an Icon descendant
FindIconHref(tree, r) ==
    LET hits == {i \in 1..Len(tree) :
                    /\ tree[i].tag = "href"
                    /\ tree[i].parent # 0
                    /\ tree[tree[i].parent].tag = "Icon"
                    /\ IsDescendant(tree, tree[i].parent, r)}
    IN  IF hits = {} THEN 0 ELSE Min(hits)

\* Element.text: None for an element without text
TextOf(tree, i) == IF tree[i].text = <<>> THEN NoneVal ELSE tree[i].text

---------------------------------------------------------------------------
(* parse_kml, lines 71-101, on the tree ET.parse returned and the files    *)
(* of the directory that holds the document                                *)

Raised(e) == [exc |-> e, doc_name |-> NoneVal, image_href |-> NoneVal,
              coordinates |-> <<>>]

Returned(n, h, c) == [exc |-> "none", doc_name |-> n, image_href |-> h,
                      coordinates |-> c]

\* lines 95-101
parse_box(tree, overlay, doc_name, image_href) ==
    LET latlonbox == FindDesc(tree, overlay, "LatLonBox")
        n == FindChild(tree, latlonbox, "north")
        s == FindChild(tree, latlonbox, "south")
        e == FindChild(tree, latlonbox, "east")
        w == FindChild(tree, latlonbox, "west")
    IN  IF latlonbox = 0 \/ n = 0 \/ s = 0 \/ e = 0 \/ w = 0
        THEN Raised("AttributeError")
        ELSE Returned(doc_name, image_href,
                      <<TextOf(tree, n), TextOf(tree, s),
                        TextOf(tree, e), TextOf(tree, w)>>)

\* lines 85-92
parse_overlay(tree, files, overlay, doc_name) ==
    LET href == FindIconHref(tree, overlay)
    IN  IF href = 0 THEN Raised("AttributeError")
        ELSE IF TextOf(tree, href) = NoneVal THEN Raised("TypeError")
        ELSE IF TextOf(tree, href) \notin DOMAIN files
             THEN Returned(NoneVal, NoneVal, NoneVal)
        ELSE parse_box(tree, overlay, doc_name, TextOf(tree, href))

\* lines 76-83
parse_tree(tree, files) ==
    LET name == FindDesc(tree, 1, "name")
        ground_overlay == FindDesc(tree, 1, "GroundOverlay")
    IN  IF name = 0 THEN Raised("AttributeError")
        ELSE IF ground_overlay = 0 THEN Returned(NoneVal, NoneVal, NoneVal)
        ELSE parse_overlay(tree, files, ground_overlay, TextOf(tree, name))

---------------------------------------------------------------------------
(* create_clean_kml, lines 103-135: the f-string template, lexeme by       *)
(* lexeme; the fields are interpolated as they are, nothing is escaped.    *)
(* Blanks between elements are left out, and so is the xmlns attribute of  *)
(* the root: every element of the text is in the KML namespace.            *)

XmlDecl == "<?xml version=\"1.0\" encoding=\"UTF-8\"?>"
Comment == "<!-- Forces overlay to stay visible on Android -->"

Open(tag) == <<"<", tag, ">">>
Close(tag) == <<"</", tag, ">">>
Elem(tag, body) == Open(tag) \o body \o Close(tag)

create_clean_kml(doc_name, image_href, coordinates) ==
    LET north == coordinates[1]
        south == coordinates[2]
        east == coordinates[3]
        west == coordinates[4]
    IN  <<XmlDecl>> \o
        Elem("kml",
          Elem("Document",
            Elem("name", Fmt(doc_name)) \o
            Elem("open", <<"1">>) \o
            Elem("GroundOverlay",
              Elem("name", <<"Map">>) \o
              Elem("drawOrder", <<"100">>) \o <<Comment>> \o
              Elem("Icon", Elem("href", Fmt(image_href))) \o
              Elem("LatLonBox",
                Elem("north", Fmt(north)) \o
                Elem("south", Fmt(south)) \o
                Elem("east", Fmt(east)) \o
                Elem("west", Fmt(west))) \o
              Elem("Lod",
                Elem("minLodPixels", <<"64">>) \o
                Elem("maxLodPixels", <<"-1">>)))))

---------------------------------------------------------------------------
(* ET.parse, line 73, of a text: the element tree, or ParseError.  A       *)
(* start tag is "<" name ">", an empty element "<" name "/>", an end tag   *)
(* "</" name ">" matching the open element; "&" must begin the reference   *)
(* "&amp;"; ">" and "/>" are plain text outside a tag; text outside the    *)
(* root element, a second root, or an unclosed element is an error.        *)

Names == {"kml", "Document", "name", "open", "GroundOverlay", "drawOrder",
          "Icon", "href", "LatLonBox", "north", "south", "east", "west",
          "Lod", "minLodPixels", "maxLodPixels", "Region", "NetworkLink",
          "Map", "None", "Topo", "A", "a"}

ParseError == [ok |-> FALSE, tree |-> <<>>]

RECURSIVE Scan(_, _, _, _, _)
Scan(toks, i, stack, nodes, sealed) ==
    IF i > Len(toks)
    THEN IF stack = <<>> /\ nodes # <<>>
         THEN [ok |-> TRUE, tree |-> nodes] ELSE ParseError
    ELSE
    LET t == toks[i]
        top == IF stack = <<>> THEN 0 ELSE stack[Len(stack)]
        At(k) == IF k <= Len(toks) THEN toks[k] ELSE "#eof"
        AddText(x, step) ==
            IF top = 0 THEN ParseError
            ELSE Scan(toks, i + step, stack,
                      IF top \in sealed THEN nodes
                      ELSE [nodes EXCEPT ![top].text = @ \o <<x>>],
                      sealed)
    IN  CASE t = XmlDecl ->
               IF i = 1 THEN Scan(toks, i + 1, stack, nodes, sealed)
               ELSE ParseError
          [] t = Comment -> Scan(toks, i + 1, stack, nodes, sealed)
          [] t = "<" ->
               IF /\ At(i + 1) \in Names
                  /\ At(i + 2) \in {">", "/>"}
                  /\ ~(top = 0 /\ nodes # <<>>)
               THEN Scan(toks, i + 3,
                         IF At(i + 2) = ">"
                         THEN Append(stack, Len(nodes) + 1) ELSE stack,
                         Append(nodes, Node(At(i + 1), top, <<>>)),
                         sealed \cup {top})
               ELSE ParseError
          [] t = "</" ->
               IF top # 0 /\ At(i + 1) = nodes[top].tag /\ At(i + 2) = ">"
               THEN Scan(toks, i + 3, SubSeq(stack, 1, Len(stack) - 1),
                         nodes, sealed)
               ELSE ParseError
          [] t = "&" ->
               IF At(i + 1) = "amp;" THEN AddText("&", 2) ELSE ParseError
          [] OTHER -> AddText(t, 1)

ET_parse_text(toks) == Scan(toks, 1, <<>>, <<>>, {})

\* parse_kml, lines 71-101, of a text
parse_kml_text(toks, files) ==
    LET p == ET_parse_text(toks)
    IN  IF p.ok THEN parse_tree(p.tree, files) ELSE Raised("ParseError")

\* how many elements of a tree carry a tag
CountTag(tree, tag) == Cardinality({i \in 1..Len(tree) : tree[i].tag = tag})

---------------------------------------------------------------------------
(* The inputs of a run: files, archives and source documents               *)

Absent == <<"#absent">>

Data(kind, wf, tree, text) == [kind |-> kind, wf |-> wf, tree |-> tree, text |-> text]
Image == Data("image", FALSE, <<>>, <<>>)
Other == Data("other", FALSE, <<>>, <<>>)
\* a doc.kml ET.parse accepts, by the tree it yields
Kml(tree) == Data("kml", TRUE, tree, <<>>)
\* a doc.kml ET.parse rejects
Malformed == Data("kml", FALSE, <<>>, <<>>)
\* the cleaned.kml that create_clean_kml wrote
Cleaned(text) == Data("kml", FALSE, <<>>, text)

\* the tree of a source document: a name (Absent, empty or a text), whether
\* it has a GroundOverlay, its Icon/href, whether it has a LatLonBox, its north
KmlTree(name, overlay, href, box, north) ==
    LET nameN == IF name = Absent THEN <<>> ELSE <<Node("name", 2, name)>>
        g == 2 + Len(nameN) + 1
        iconN == IF href = Absent THEN <<>>
                 ELSE <<Node("Icon", g, <<>>), Node("href", g + 1, href)>>
        b == g + Len(iconN) + 1
        northN == IF north = Absent THEN <<>> ELSE <<Node("north", b, north)>>
        boxN == IF ~box THEN <<>>
                ELSE <<Node("LatLonBox", g, <<>>)>> \o northN \o
                     <<Node("south", b, <<"44.0">>),
                       Node("east", b, <<"-120.0">>),
                       Node("west", b, <<"-121.0">>)>>
        ov == IF ~overlay THEN <<>>
              ELSE <<Node("GroundOverlay", 2, <<>>)>> \o iconN \o boxN
    IN  <<Node("kml", 0, <<>>), Node("Document", 1, <<>>)>> \o nameN \o ov

TopoA == <<"Topo", "A">>
N45 == <<"45.0">>

ValidDoc == Kml(KmlTree(TopoA, TRUE, OverlayPng, TRUE, N45))

SourceDocs ==
    { ValidDoc, Malformed,
      Kml(KmlTree(Absent, TRUE, OverlayPng, TRUE, N45)),
      Kml(KmlTree(<<>>, TRUE, OverlayPng, TRUE, N45)),
      Kml(KmlTree(TopoA, FALSE, OverlayPng, TRUE, N45)),
      Kml(KmlTree(Absent, FALSE, OverlayPng, TRUE, N45)),
      Kml(KmlTree(TopoA, TRUE, Absent, TRUE, N45)),
      Kml(KmlTree(TopoA, TRUE, <<>>, TRUE, N45)),
      Kml(KmlTree(TopoA, TRUE, <<"missing.png">>, TRUE, N45)),
      Kml(KmlTree(TopoA, TRUE, DocKml, TRUE, N45)),
      Kml(KmlTree(TopoA, TRUE, OverlayPng, FALSE, N45)),
      Kml(KmlTree(TopoA, TRUE, OverlayPng, TRUE, Absent)),
      Kml(KmlTree(TopoA, TRUE, OverlayPng, TRUE, <<>>)) }

File(readable, files) == [type |-> "file", readable |-> readable, files |-> files]
Dir(files) == [type |-> "dir", readable |-> TRUE, files |-> files]

\* the .kmz archives: corrupt, without doc.kml, or a doc.kml beside overlay.png
KmzArchives ==
    { File(FALSE, NoFiles), File(TRUE, OverlayPng :> Image) } \cup
    { File(TRUE, (DocKml :> d) @@ (OverlayPng :> Image)) : d \in SourceDocs }

ValidKmz == File(TRUE, (DocKml :> ValidDoc) @@ (OverlayPng :> Image))

\* directories a zip may hold beside its archives
ZipDirs ==
    { Dir(<<"notes.txt">> :> Other),
      Dir((DocKml :> ValidDoc) @@ (OverlayPng :> Image)) }

Stems == {"a", "b"}
KmzNames == {<<s, e>> : s \in Stems, e \in {".kmz", ".KMZ"}}
DirNames == {<<s>> : s \in Stems}
EntryNames == KmzNames \cup DirNames

\* what a zip of the working directory may hold at its top level
ZipListings ==
    UNION { { f \in [S -> KmzArchives \cup ZipDirs] :
                \A n \in S : f[n] \in (IF n \in KmzNames THEN KmzArchives ELSE ZipDirs) } :
            S \in {T \in SUBSET EntryNames : Cardinality(T) <= MaxEntries} }

BundleZip == <<"bundle", ".zip">>
SampleKmz == <<"sample", ".kmz">>

\* the working directory: a valid sample.kmz or none, and bundle.zip (corrupt,
\* or with a listing) or none
WorkDirs ==
    { k @@ z :
        k \in {NoFiles, SampleKmz :> ValidKmz},
        z \in {NoFiles, BundleZip :> File(FALSE, NoFiles)} \cup
              {BundleZip :> File(TRUE, l) : l \in ZipListings} }

---------------------------------------------------------------------------
(* process_files, lines 143-223 *)

Header == <<"Processed KMZ Files:">>

\* a log line that names the scratch subdirectory instead of the output archive
LogLineScratch(name, path) == name \o <<" -> ">> \o TEMP_FOLDER \o kmz_extract_folder(name)

\* line 199: the line written for an item
LogLine(name, path) == name \o <<" -> ">> \o path

\* zipfile's extractall into a directory: files are overwritten, directories merged
ExtractAll(dir, files) ==
    [x \in (DOMAIN dir) \cup (DOMAIN files) |->
        IF x \notin DOMAIN files THEN dir[x]
        ELSE IF x \in DOMAIN dir /\ dir[x].type = "dir" /\ files[x].type = "dir"
             THEN Dir(Merge(dir[x].files, files[x].files))
        ELSE files[x]]

\* the entries repackage_kmz writes, lines 139-141
repackage_kmz(folder, image_file) ==
    << [name |-> DocKml, data |-> folder[CleanedKml]],
       [name |-> image_file, data |-> folder[image_file]] >>

KIdle == /\ kpc = "off" /\ rec = <<>> /\ kml_content = <<>> /\ reparsed = Raised("none")

Init ==
    /\ pc = "open"
    /\ workdir \in WorkDirs
    /\ temp = NoFiles
    /\ temp_exists = TRUE
    /\ out = NoFiles
    /\ log = <<>>
    /\ zips = {}
    /\ pending = {}
    /\ listing = NoFiles
    /\ kmz_file = <<>>
    /\ parsed = Raised("none")
    /\ exc = "none"
    /\ handled = <<>>
    /\ completed = <<>>
    /\ KIdle

\* an exception leaves process_files: the with block closes the log, the run ends
Crash(e) == pc' = "crashed" /\ exc' = e

\* lines 145-150
OpenLog ==
    /\ pc = "open"
    /\ log' = <<Header>>
    /\ zips' = DOMAIN workdir
    /\ pc' = "zips"
    /\ UNCHANGED <<workdir, temp, temp_exists, out, pending, listing, kmz_file,
                   parsed, exc, handled, completed, kvars>>

\* lines 153-157, one turn of the loop
ExtractZip ==
    /\ pc = "zips"
    /\ \E zip_file \in zips :
        /\ zips' = zips \ {zip_file}
        /\ IF ~endswith(lower(zip_file), ".zip")
           THEN UNCHANGED <<temp, pc, exc>>
           ELSE IF workdir[zip_file].readable
           THEN temp' = ExtractAll(temp, workdir[zip_file].files) /\ UNCHANGED <<pc, exc>>
           ELSE Crash("BadZipFile") /\ UNCHANGED temp
    /\ UNCHANGED <<workdir, temp_exists, out, log, pending, listing, kmz_file,
                   parsed, handled, completed, kvars>>

\* line 162: os.listdir(TEMP_FOLDER), evaluated once
ListTemp ==
    /\ pc = "zips"
    /\ zips = {}
    /\ listing' = temp
    /\ pending' = DOMAIN temp
    /\ pc' = "loop"
    /\ UNCHANGED <<workdir, temp, temp_exists, out, log, zips, kmz_file, parsed,
                   exc, handled, completed, kvars>>

\* lines 162-167: the next name of the listing, in any order; makedirs
NextItem ==
    /\ pc = "loop"
    /\ \E n \in pending :
        /\ pending' = pending \ {n}
        /\ kmz_file' = n
        /\ IF ~endswith(lower(n), ".kmz")
           THEN UNCHANGED <<temp, pc, exc, handled>>
           ELSE /\ handled' = Append(handled, n)
                /\ LET d == kmz_extract_folder(n)
                   IN  IF d \in DOMAIN temp /\ temp[d].type = "file"
                       THEN Crash("FileExistsError") /\ UNCHANGED temp
                       ELSE /\ temp' = IF d \in DOMAIN temp THEN temp
                                       ELSE temp @@ (d :> Dir(NoFiles))
                            /\ pc' = "extract"
                            /\ UNCHANGED exc
    /\ UNCHANGED <<workdir, temp_exists, out, log, zips, listing, parsed,
                   completed, kvars>>

\* line 172: extract_kmz into the scratch subdirectory
ExtractKmz ==
    /\ pc = "extract"
    /\ LET d == kmz_extract_folder(kmz_file)
       IN  IF temp[kmz_file].readable
           THEN /\ temp' = [temp EXCEPT ![d] = Dir(Merge(@.files, temp[kmz_file].files))]
                /\ pc' = "locate"
                /\ UNCHANGED exc
           ELSE Crash("BadZipFile") /\ UNCHANGED temp
    /\ UNCHANGED <<workdir, temp_exists, out, log, zips, pending, listing,
                   kmz_file, parsed, handled, completed, kvars>>

\* lines 175-179
Locate ==
    /\ pc = "locate"
    /\ LET d == kmz_extract_folder(kmz_file)
       IN  IF DocKml \notin DOMAIN temp[d].files
           THEN temp' = Without(temp, d) /\ pc' = "loop"
           ELSE pc' = "parse" /\ UNCHANGED temp
    /\ UNCHANGED <<workdir, temp_exists, out, log, zips, pending, listing,
                   kmz_file, parsed, exc, handled, completed, kvars>>

\* parse_kml, lines 71-101, of the doc.kml of a directory
parse_kml(files) ==
    IF files[DocKml].wf THEN parse_tree(files[DocKml].tree, files)
    ELSE Raised("ParseError")

\* line 183
MissingData(r) == Falsy(r.doc_name) \/ Falsy(r.image_href)

\* lines 182-188
Parse ==
    /\ pc = "parse"
    /\ LET d == kmz_extract_folder(kmz_file)
           r == parse_kml(temp[d].files)
       IN  IF r.exc # "none"
           THEN Crash(r.exc) /\ UNCHANGED <<temp, parsed>>
           ELSE IF MissingData(r)
           THEN /\ temp' = Without(temp, d)
                /\ pc' = "loop"
                /\ UNCHANGED <<parsed, exc>>
           ELSE /\ parsed' = r
                /\ pc' = "synth"
                /\ UNCHANGED <<temp, exc>>
    /\ UNCHANGED <<workdir, temp_exists, out, log, zips, pending, listing,
                   kmz_file, handled, completed, kvars>>

\* lines 191-192
Synthesize ==
    /\ pc = "synth"
    /\ LET d == kmz_extract_folder(kmz_file)
           text == create_clean_kml(parsed.doc_name, parsed.image_href,
                                    parsed.coordinates)
       IN  temp' = [temp EXCEPT ![d] =
                       Dir(Merge(@.files, CleanedKml :> Cleaned(text)))]
    /\ pc' = "repackage"
    /\ UNCHANGED <<workdir, temp_exists, out, log, zips, pending, listing,
                   kmz_file, parsed, exc, handled, completed, kvars>>

\* lines 195-196
Repackage ==
    /\ pc = "repackage"
    /\ LET d == kmz_extract_folder(kmz_file)
       IN  out' = (kmz_file :> repackage_kmz(temp[d].files, parsed.image_href))
                  @@ out
    /\ completed' = Append(completed, [item |-> kmz_file, record |-> parsed])
    /\ pc' = "record"
    /\ UNCHANGED <<workdir, temp, temp_exists, log, zips, pending, listing,
                   kmz_file, parsed, exc, handled, kvars>>

\* lines 198-202
Record ==
    /\ pc = "record"
    /\ log' = Append(log, LogLine(kmz_file, output_kmz_path(kmz_file)))
    /\ temp' = Without(temp, kmz_extract_folder(kmz_file))
    /\ pc' = "loop"
    /\ UNCHANGED <<workdir, temp_exists, out, zips, pending, listing, kmz_file,
                   parsed, exc, handled, completed, kvars>>

\* lines 204-223, after the last name of the listing
Cleanup ==
    /\ pc = "loop"
    /\ pending = {}
    /\ temp' = NoFiles
    /\ temp_exists' = FALSE
    /\ pc' = "done"
    /\ UNCHANGED <<workdir, out, log, zips, pending, listing, kmz_file, parsed,
                   exc, handled, completed, kvars>>

Next ==
    \/ OpenLog
    \/ ExtractZip
    \/ ListTemp
    \/ NextItem
    \/ ExtractKmz
    \/ Locate
    \/ Parse
    \/ Synthesize
    \/ Repackage
    \/ Record
    \/ Cleanup

Spec == Init /\ [][Next]_vars

---------------------------------------------------------------------------
(* The synthesis round trip: create_clean_kml on a record, then parse_kml  *)
(* on the text it wrote, beside the image the record names                 *)

Lexemes == {"a", "&", "amp;", "<", "</", ">", "/>", "Region"}

\* the non-empty texts of at most MaxLen lexemes
Texts == UNION {[1..k -> Lexemes] : k \in 1..MaxLen}

PlainRecord == [doc_name |-> TopoA, image_href |-> OverlayPng,
                coordinates |-> <<N45, <<"44.0">>, <<"-120.0">>, <<"-121.0">>>>]

\* the records parse_kml can return to line 182 and line 183 lets through: the
\* name and the reference are non-empty texts, a coordinate is a text or None;
\* one field at a time is drawn from Texts
Records ==
    {[PlainRecord EXCEPT !.doc_name = v] : v \in Texts} \cup
    {[PlainRecord EXCEPT !.image_href = v] : v \in Texts} \cup
    {[PlainRecord EXCEPT !.coordinates[i] = v] :
        i \in 1..4, v \in Texts \cup {NoneVal}}

PIdle ==
    /\ pc = "off"
    /\ workdir = NoFiles
    /\ temp = NoFiles
    /\ temp_exists = FALSE
    /\ out = NoFiles
    /\ log = <<>>
    /\ zips = {}
    /\ pending = {}
    /\ listing = NoFiles
    /\ kmz_file = <<>>
    /\ parsed = Raised("none")
    /\ exc = "none"
    /\ handled = <<>>
    /\ completed = <<>>

KInit ==
    /\ PIdle
    /\ kpc = "record"
    /\ rec \in Records
    /\ kml_content = <<>>
    /\ reparsed = Raised("none")

\* create_clean_kml, lines 103-135
KSynthesize ==
    /\ kpc = "record"
    /\ kml_content' = create_clean_kml(rec.doc_name, rec.image_href, rec.coordinates)
    /\ kpc' = "written"
    /\ UNCHANGED <<rec, reparsed, pvars>>

\* parse_kml, lines 71-101, of the text written
KReparse ==
    /\ kpc = "written"
    /\ reparsed' = parse_kml_text(kml_content, rec.image_href :> Image)
    /\ kpc' = "parsed"
    /\ UNCHANGED <<rec, kml_content, pvars>>

KNext == KSynthesize \/ KReparse

SpecKml == KInit /\ [][KNext]_vars

---------------------------------------------------------------------------
(* Properties of the pipeline *)

Range(f) == {f[i] : i \in DOMAIN f}

RunEnded == pc \in {"done", "crashed"}

\* the item's scratch subdirectory was no name of the scratch area
Exclusive(n) == kmz_extract_folder(n) \notin DOMAIN listing

\* an archive with a doc.kml that names a name, an overlay, an image that is
\* present and four bounds
ValidArchive(a) ==
    /\ a.readable
    /\ DocKml \in DOMAIN a.files
    /\ LET r == parse_kml(a.files)
       IN  /\ r.exc = "none"
           /\ ~MissingData(r)
           /\ \A i \in 1..4 : r.coordinates[i] # NoneVal

\* the .kmz files of the working directory and of its readable zips
DirectItems == {n \in DOMAIN workdir : endswith(lower(n), ".kmz")}
ZippedItems ==
    UNION { {n \in DOMAIN workdir[z].files : endswith(lower(n), ".kmz")} :
            z \in {y \in DOMAIN workdir :
                     endswith(lower(y), ".zip") /\ workdir[y].readable} }
ArchiveOf(n) ==
    IF n \in DirectItems THEN workdir[n]
    ELSE workdir[CHOOSE z \in DOMAIN workdir :
                    endswith(lower(z), ".zip") /\ n \in DOMAIN workdir[z].files].files[n]

ExpectedLine(n) == n \o <<" -> ">> \o OUTPUT_FOLDER \o n

Logged(n) == \E i \in 2..Len(log) : log[i] = ExpectedLine(n)

\* C1: when the run has ended normally, the items handled are every .kmz file
\* of the working directory and every .kmz file of its zips, and every valid
\* one of them has an output archive of its name.
C1_DiscoveryComplete ==
    pc = "done" =>
        /\ Range(handled) = DirectItems \cup ZippedItems
        /\ \A n \in DirectItems \cup ZippedItems :
              ValidArchive(ArchiveOf(n)) => n \in DOMAIN out

CorruptOrMalformed(a) ==
    \/ ~a.readable
    \/ DocKml \in DOMAIN a.files /\ ~a.files[DocKml].wf

\* C2: when the run has ended, an item whose archive is corrupt or whose
\* doc.kml is not well-formed has no output archive and no log line, every
\* name of the listing was visited, and the run ended normally with the
\* scratch area removed.  (Stated for the items whose scratch subdirectory
\* is their own.)
C2_FailureContained ==
    RunEnded =>
        \A n \in Range(handled) :
            (Exclusive(n) /\ CorruptOrMalformed(listing[n])) =>
                /\ n \notin DOMAIN out
                /\ ~Logged(n)
                /\ pending = {}
                /\ pc = "done"
                /\ ~temp_exists

AllPresent(r) ==
    /\ ~Falsy(r.doc_name)
    /\ ~Falsy(r.image_href)
    /\ \A i \in 1..4 : ~Falsy(r.coordinates[i])

\* C3: an item has an output archive only if its name, image reference and
\* four bounds were present and non-empty, and an absent or empty field
\* never raises an error (AttributeError, TypeError) out of the run.
C3_UsableRecord ==
    /\ \A i \in 1..Len(completed) : AllPresent(completed[i].record)
    /\ exc \notin {"AttributeError", "TypeError"}

\* an archive without doc.kml, or whose doc.kml has no GroundOverlay, or whose
\* doc.kml references an image the archive does not hold
ExpectedSkip(a) ==
    /\ a.readable
    /\ \/ DocKml \notin DOMAIN a.files
       \/ /\ a.files[DocKml].wf
          /\ LET tree == a.files[DocKml].tree
                 g == FindDesc(tree, 1, "GroundOverlay")
                 h == IF g = 0 THEN 0 ELSE FindIconHref(tree, g)
             IN  \/ g = 0
                 \/ h # 0 /\ TextOf(tree, h) # NoneVal
                          /\ TextOf(tree, h) \notin DOMAIN a.files

\* C4: an item without doc.kml, without GroundOverlay or without its image
\* gets no output archive and no log line and does not end the run.
\* (Stated for the items whose scratch subdirectory is their own.)
C4_SkipCorrect ==
    \A n \in Range(handled) :
        (Exclusive(n) /\ ExpectedSkip(listing[n])) =>
            /\ n \notin DOMAIN out
            /\ ~Logged(n)
            /\ ~(pc = "crashed" /\ kmz_file = n)

\* the log of a run: the header, then lines of existing output archives; at
\* the end of the run one line per converted item, in order, and no other
\* output archive
C5_LogState ==
    pc # "open" =>
        /\ Len(log) >= 1
        /\ log[1] = Header
        /\ \A i \in 2..Len(log) : \E n \in DOMAIN out : log[i] = ExpectedLine(n)
        /\ RunEnded =>
              /\ Len(log) = Len(completed) + 1
              /\ \A i \in 1..Len(completed) :
                    log[i + 1] = ExpectedLine(completed[i].item)
              /\ DOMAIN out = {completed[i].item : i \in 1..Len(completed)}

C5_AppendOnly ==
    pc # "open" => /\ Len(log') >= Len(log)
                   /\ SubSeq(log', 1, Len(log)) = log

\* C5: in every state of a run the log is the header followed by lines
\* `<inputName> -> <outputPath>` of output archives that exist, lines are only
\* ever appended, and at the end of the run the lines are, one to one and in
\* order, those of the converted items.
C5_LogConsistent == [](C5_LogState) /\ [][C5_AppendOnly]_vars

\* a run that ended normally after one item was converted and one skipped
C5_Witness ==
    /\ pc = "done"
    /\ Len(handled) = 2
    /\ Len(log) = 2
    /\ Len(completed) = 1

\* C8: every output archive holds exactly two entries with distinct names:
\* the synthesized document as doc.kml and the image under the reference the
\* source document gave.
C8_ArchiveLayout ==
    \A i \in 1..Len(completed) :
        LET a == out[completed[i].item]
            r == completed[i].record
        IN  /\ Len(a) = 2
            /\ a[1].name = DocKml
            /\ a[1].data = Cleaned(create_clean_kml(r.doc_name, r.image_href,
                                                    r.coordinates))
            /\ a[2].name = r.image_href
            /\ a[2].name # a[1].name

\* C9: the scratch subdirectory of an item is no archive file of the scratch
\* area, and holds only what the item's extraction (and synthesis) put there.
C9_ScratchExclusive ==
    \A n \in Range(handled) :
        LET d == kmz_extract_folder(n)
        IN  /\ ~(d \in DOMAIN listing /\ listing[d].type = "file")
            /\ (kmz_file = n /\ pc \in {"locate", "parse", "synth", "repackage", "record"})
                  => DOMAIN temp[d].files \subseteq
                        (DOMAIN listing[n].files) \cup {CleanedKml}

\* the scratch subdirectories of handled items that exist
LiveScratch ==
    {kmz_extract_folder(n) : n \in
        {m \in Range(handled) :
            /\ kmz_extract_folder(m) \in DOMAIN temp
            /\ temp[kmz_extract_folder(m)].type = "dir"}}

\* C10: between items no handled item's scratch subdirectory exists, at most
\* one exists at any time, and when the run has ended, on any exit path of
\* an item, the scratch area is gone.  (Stated for the items whose scratch
\* subdirectory is their own.)
C10_ScratchLifecycle ==
    (\A n \in Range(handled) : Exclusive(n)) =>
        /\ pc = "loop" => LiveScratch = {}
        /\ Cardinality(LiveScratch) <= 1
        /\ (RunEnded /\ handled # <<>>) => (LiveScratch = {} /\ ~temp_exists)

---------------------------------------------------------------------------
(* Properties of the synthesis round trip *)

\* C6: extracting the fields again from the text create_clean_kml wrote for
\* a record of strings yields the record.
C6_RoundTrip ==
    (kpc = "parsed" /\ \A i \in 1..4 : rec.coordinates[i] # NoneVal) =>
        reparsed = Returned(rec.doc_name, rec.image_href, rec.coordinates)

\* C7: the text create_clean_kml wrote, when it parses, holds exactly one
\* GroundOverlay, no Region and no NetworkLink element.
C7_Exclusion ==
    kpc = "written" =>
        LET p == ET_parse_text(kml_content)
        IN  p.ok => /\ CountTag(p.tree, "GroundOverlay") = 1
                    /\ CountTag(p.tree, "Region") = 0
                    /\ CountTag(p.tree, "NetworkLink") = 0

====
